---- MODULE Spec2Model ----
(***************************************************************************)
(* The dashboard backend: GET /api/dashboard/:userId behind an API-key     *)
(* middleware, reading one user document and aggregating its ledger.       *)
(* The repository holds four variants of the same server:                  *)
(*   "ledger"  src/server.js 1-228     income/expense + transactions       *)
(*   "trend"   src/server.js 230-449   stacked expense trend               *)
(*   "revenue" src/unnamed/part_000    revenue only                        *)
(*   "flat"    src/unnamed/part_001    flat transactions array             *)
(*                                                                         *)
(* Data conventions of the model:                                          *)
(*  - amounts are integers counted in 1/Scale units, so that Math.round    *)
(*    has a fractional part to round;                                      *)
(*  - a daily entry is a tagged value [t, v] (number, string, boolean,     *)
(*    null), converted by Number() as ECMAScript converts it;              *)
(*  - a JS object is a function; its key order is rebuilt where the code   *)
(*    depends on it (for-in over integer-like keys is ascending);          *)
(*  - a string that the code searches or parses is a sequence of tokens;   *)
(*  - group labels and month names are transliterated to ASCII; a month    *)
(*    name that ends with the geresh sign keeps a trailing apostrophe.     *)
(***************************************************************************)
EXTENDS Integers, Sequences, FiniteSets, TLC

VARIABLES db, variant, API_KEY, now, reqs

vars == <<db, variant, API_KEY, now, reqs>>

----------------------------------------------------------------------------
(* Bounds of the model *)

Scale == 2

MaxCells == 2

MonthsPerYear == 4

TxDays == 2

----------------------------------------------------------------------------
(* Program constants *)

WindowSize == 6

RecentCountLedger == 7

RecentCountRevenue == 5

RecentCountFlat == 5

----------------------------------------------------------------------------
(* Generic sequence helpers *)

\* A sequence given as a function, evaluated once into a tuple.
Strict(s) == s \o <<>>

\* The element of a one-element set. { e(v) : v \in {x} } binds v to the
\* value of x, so that e reads a value where it names v several times.
The(S) == CHOOSE x \in S : TRUE

\* `const v = e; ...`: F applied to the value of e.
With(e, F(_)) == The({F(v) : v \in {e}})

RECURSIVE SumSeq(_)
SumSeq(s) == IF s = <<>> THEN 0 ELSE s[1] + SumSeq(Tail(s))

RECURSIVE Concat(_)
Concat(ss) == IF ss = <<>> THEN <<>> ELSE ss[1] \o Concat(Tail(ss))

Range(s) == {s[i] : i \in 1..Len(s)}

Min(a, b) == IF a < b THEN a ELSE b

Max(a, b) == IF a > b THEN a ELSE b

\* Object.keys / for-in over integer-like keys: ascending numeric order.
RECURSIVE ForInOrder(_)
ForInOrder(S) ==
  IF S = {} THEN <<>>
  ELSE The({<<lo>> \o The({ForInOrder(rest) : rest \in {S \ {lo}}}) :
              lo \in {x \in S : \A y \in S : x <= y}})

\* Array.prototype.includes
ArrayIncludes(s, x) == \E i \in 1..Len(s) : s[i] = x

\* Array.prototype.indexOf (0-based, -1 when absent)
IndexOf(s, x) ==
  IF ArrayIncludes(s, x) THEN (CHOOSE i \in 1..Len(s) : s[i] = x /\ \A j \in 1..(i-1) : s[j] # x) - 1
  ELSE -1

\* String.prototype.includes on token sequences: a contiguous run of tokens.
StringIncludes(msg, needle) ==
  \E i \in 0..(Len(msg) - Len(needle)) :
     \A j \in 1..Len(needle) : msg[i + j] = needle[j]

\* s.slice(-n)
SliceLast(s, n) == SubSeq(s, Max(1, Len(s) - n + 1), Len(s))

\* s.slice(0, n)
SliceFirst(s, n) == SubSeq(s, 1, Min(n, Len(s)))

\* s.slice(-n).reverse()
Reverse(s) == Strict([i \in 1..Len(s) |-> s[Len(s) + 1 - i]])

----------------------------------------------------------------------------
(* Number(), `Number(v) || 0`, Math.round *)

\* A JS value: its type, with the number it holds (a boolean holds 0 or 1) or
\* the text it holds.
Num(n) == [t |-> "number", n |-> n, s |-> ""]
Str(s) == [t |-> "string", n |-> 0, s |-> s]
Bool(b) == [t |-> "boolean", n |-> IF b THEN 1 ELSE 0, s |-> ""]
Null == [t |-> "null", n |-> 0, s |-> ""]

NaN == [nan |-> TRUE, n |-> 0]
Finite(n) == [nan |-> FALSE, n |-> n]

\* StringToNumber on the strings of the model: "" is 0, a numeral is its
\* value, anything else is NaN.
StringToNumber(s) ==
  CASE s = "" -> Finite(0)
    [] s = "5" -> Finite(5 * Scale)
    [] OTHER -> NaN

\* Number(value)
ToNumber(e) ==
  CASE e.t = "number" -> Finite(e.n)
    [] e.t = "string" -> StringToNumber(e.s)
    [] e.t = "boolean" -> Finite(e.n * Scale)
    [] OTHER -> Finite(0)

\* Number(value) || 0
NumberOrZero(e) ==
  LET x == ToNumber(e) IN IF x.nan \/ x.n = 0 THEN 0 ELSE x.n

\* (arr).reduce((s, v) => s + (Number(v) || 0), 0)
ReduceSum(arr) == SumSeq(Strict([i \in 1..Len(arr) |-> NumberOrZero(arr[i])]))

\* Math.round of an amount held in 1/Scale units: nearest integer, halves up.
MathRound(x) == (2 * x + Scale) \div (2 * Scale)

----------------------------------------------------------------------------
(* Ledger access *)

\* monthData.categories || {}
CategoriesOf(monthData) ==
  IF monthData.hasCategories THEN monthData.categories ELSE <<>>

\* categoriesData[catKey] || []
DailyValues(categoriesData, catKey) ==
  IF catKey \in DOMAIN categoriesData THEN categoriesData[catKey] ELSE <<>>

\* for (const year in yearsData) for (const monthIndex in yearsData[year])
RECURSIVE MonthSlotsFrom(_, _)
MonthSlotsFrom(yearsData, yearSeq) ==
  IF yearSeq = <<>> THEN <<>>
  ELSE LET y == yearSeq[1]
           ms == ForInOrder(DOMAIN yearsData[y])
       IN Strict([i \in 1..Len(ms) |-> [year |-> y, month |-> ms[i]]])
          \o MonthSlotsFrom(yearsData, Tail(yearSeq))

MonthSlots(yearsData) == MonthSlotsFrom(yearsData, ForInOrder(DOMAIN yearsData))

monthNames ==
  <<"ynw'", "pbr'", "mrz", "apr'", "mai", "yuni", "yuli", "aug'", "spt'", "auk'", "nov'", "dzm'">>

\* The names on which /([alef-tav]+) (\d+)/ matches: those without a geresh.
PlainLetterNames == {"mrz", "mai", "yuni", "yuli"}

\* `${monthNames[monthIndex]} ${year}`
MonthKey(slot) == [name |-> monthNames[slot.month + 1], year |-> slot.year]

----------------------------------------------------------------------------
(* Dates, as day numbers *)

IsLeap(y) == (y % 4 = 0 /\ y % 100 # 0) \/ y % 400 = 0

DaysInMonth(y, m) ==
  CASE m \in {0, 2, 4, 6, 7, 9, 11} -> 31
    [] m \in {3, 5, 8, 10} -> 30
    [] OTHER -> IF IsLeap(y) THEN 29 ELSE 28

DaysBeforeYear(y) ==
  365 * y + ((y - 1) \div 4) - ((y - 1) \div 100) + ((y - 1) \div 400)

DaysBeforeMonth(y, m) == SumSeq(Strict([i \in 1..m |-> DaysInMonth(y, i - 1)]))

\* new Date(year, monthIndex, dayOfMonth): the day of month may overflow
\* into the next month.
NewDate(y, m, dayOfMonth) ==
  Finite(DaysBeforeYear(y) + DaysBeforeMonth(y, m) + dayOfMonth)

\* a - b on two Date values (NaN when either is an Invalid Date)
DateDiff(a, b) == IF a.nan \/ b.nan THEN NaN ELSE Finite(a.n - b.n)

\* Array.prototype.sort((a, b) => cmp): a NaN comparison counts as 0. An
\* entry is [item, key]; the comparator is key(a) - key(b), or the reverse
\* when descending. The sort is stable (ES2019); it is written as insertion
\* from the right.
Compare(a, b, descending) ==
  LET d == IF descending THEN DateDiff(b.key, a.key) ELSE DateDiff(a.key, b.key)
  IN IF d.nan THEN 0 ELSE d.n

RECURSIVE InsertInto(_, _, _)
InsertInto(sorted, x, descending) ==
  IF sorted = <<>> THEN <<x>>
  ELSE The({IF Compare(last, x, descending) > 0
            THEN Append(InsertInto(front, x, descending), last)
            ELSE Append(sorted, x) :
              last \in {sorted[Len(sorted)]}, front \in {SubSeq(sorted, 1, Len(sorted) - 1)}})

RECURSIVE ArraySort(_, _)
ArraySort(s, descending) ==
  IF s = <<>> THEN <<>>
  ELSE The({InsertInto(sorted, last, descending) :
              sorted \in {The({ArraySort(front, descending) :
                                 front \in {SubSeq(s, 1, Len(s) - 1)}})},
              last \in {s[Len(s)]}})

Items(entries) == Strict([i \in 1..Len(entries) |-> entries[i].item])

----------------------------------------------------------------------------
(* Shared report pieces *)

\* The placeholder name of an empty series ("no data").
NoDataName == [name |-> "no_data", year |-> 0]

\* obj[name] = (obj[name] || 0) + add, on an object kept as the sequence of
\* its [name, value] properties in insertion order.
Accumulate(obj, name, add) ==
  IF \E i \in 1..Len(obj) : obj[i].name = name
  THEN Strict([i \in 1..Len(obj) |->
          IF obj[i].name = name THEN [name |-> name, value |-> obj[i].value + add] ELSE obj[i]])
  ELSE Append(obj, [name |-> name, value |-> add])

\* monthlyBreakdown[name]
BreakdownOf(monthlyBreakdown, name) ==
  monthlyBreakdown[CHOOSE i \in 1..Len(monthlyBreakdown) : monthlyBreakdown[i].key = name]

\* The values of yearsData[currentYear], in month order.
MonthsOfYear(yearsData, year) ==
  LET ms == ForInOrder(DOMAIN yearsData[year])
  IN Strict([i \in 1..Len(ms) |-> yearsData[year][ms[i]]])

\* sum over `keys` of (categoriesData[key] || []).reduce(...)
SumOfKeys(categoriesData, keys) ==
  SumSeq(Strict([i \in 1..Len(keys) |-> ReduceSum(DailyValues(categoriesData, keys[i]))]))

----------------------------------------------------------------------------
(* Variant "ledger": src/server.js 52-211 *)

categoriesDefinitionLedger ==
  << [groupName |-> "income",
      keys |-> <<"sales_cash", "sales_credit", "sales_cheques", "sales_transfer", "sales_other">>],
     [groupName |-> "income_exempt",
      keys |-> <<"exempt_sales_cash", "exempt_sales_credit", "exempt_sales_cheques",
                 "exempt_sales_transfer", "exempt_sales_other">>],
     [groupName |-> "suppliers",
      keys |-> <<"supplier_1", "supplier_2", "supplier_3", "supplier_4", "supplier_5",
                 "supplier_6", "supplier_7", "supplier_8", "supplier_9", "supplier_10">>],
     [groupName |-> "variable_expenses",
      keys |-> <<"electricity", "water", "packaging", "marketing", "custom_var_1",
                 "custom_var_2", "custom_var_3", "custom_var_4">>],
     [groupName |-> "partial_vat_expenses",
      keys |-> <<"car_expenses", "phone_expenses", "partial_custom_1", "partial_custom_2">>],
     [groupName |-> "loans",
      keys |-> <<"loan_1", "loan_2", "loan_3", "loan_4", "loan_5", "loan_6", "loan_7",
                 "loan_8", "loan_9", "loan_10">>],
     [groupName |-> "fixed_expenses",
      keys |-> <<"rent", "arnona", "salaries", "insurance", "accounting", "communication",
                 "software", "custom_fixed_1", "custom_fixed_2", "custom_fixed_3",
                 "custom_fixed_4">>],
     [groupName |-> "taxes",
      keys |-> <<"social_security", "income_tax", "vat_payment", "vat_field", "custom_tax_1",
                 "custom_tax_2", "custom_tax_3", "custom_tax_4">>],
     [groupName |-> "misc", keys |-> <<"misc">>] >>

GroupKeysLedger(groupName) ==
  (CHOOSE g \in Range(categoriesDefinitionLedger) : g.groupName = groupName).keys

allIncomeKeysLedger == GroupKeysLedger("income") \o GroupKeysLedger("income_exempt")

allExpenseKeysLedger ==
  LET groups == SelectSeq(categoriesDefinitionLedger,
                          LAMBDA g : g.groupName # "income" /\ g.groupName # "income_exempt")
  IN Concat(Strict([i \in 1..Len(groups) |-> groups[i].keys]))

\* if (numValue >= 0): a record and a count for a day without a movement.
TransactionsOfKeyCountingZeros(slot, categoriesData, catKey, suffix, type) ==
  LET dailyValues == DailyValues(categoriesData, catKey)
      cells == Strict([i \in 1..Len(dailyValues) |->
                  [id |-> <<slot.year, slot.month, i - 1, catKey, suffix>>,
                   amount |-> NumberOrZero(dailyValues[i]),
                   type |-> type,
                   date |-> NewDate(slot.year, slot.month, i)]])
  IN SelectSeq(cells, LAMBDA t : t.amount >= 0)

\* dailyValues.forEach((value, day) => { if (numValue > 0) push({...}) })
TransactionsOfKey(slot, categoriesData, catKey, suffix, type) ==
  LET dailyValues == DailyValues(categoriesData, catKey)
      cells == Strict([i \in 1..Len(dailyValues) |->
                  [id |-> <<slot.year, slot.month, i - 1, catKey, suffix>>,
                   amount |-> NumberOrZero(dailyValues[i]),
                   type |-> type,
                   date |-> NewDate(slot.year, slot.month, i)]])
  IN SelectSeq(cells, LAMBDA t : t.amount > 0)

Amounts(txs) == SumSeq(Strict([i \in 1..Len(txs) |-> txs[i].amount]))

\* One pass of the inner loop body for a month: lines 93-150.
MonthLedger(slot, monthData) ==
  With(CategoriesOf(monthData), LAMBDA categoriesData :
  With(Concat(Strict([i \in 1..Len(allIncomeKeysLedger) |->
         TransactionsOfKey(slot, categoriesData, allIncomeKeysLedger[i], "in", "inflow")])),
       LAMBDA incomeTxs :
  With(SelectSeq(categoriesDefinitionLedger,
                 LAMBDA g : ~ArrayIncludes(allIncomeKeysLedger, g.keys[1])),
       LAMBDA groups :
  With(Strict([g \in 1..Len(groups) |->
         Concat(Strict([i \in 1..Len(groups[g].keys) |->
            TransactionsOfKey(slot, categoriesData, groups[g].keys[i], "out", "outflow")]))]),
       LAMBDA groupTxs :
  With(Strict([g \in 1..Len(groups) |->
         [name |-> groups[g].groupName, value |-> Amounts(groupTxs[g])]]),
       LAMBDA groupSums :
    [key |-> MonthKey(slot),
     year |-> slot.year,
     income |-> Amounts(incomeTxs),
     expense |-> SumSeq(Strict([g \in 1..Len(groups) |->
                           IF groupSums[g].value > 0 THEN groupSums[g].value ELSE 0])),
     incomeTxs |-> incomeTxs,
     expenseTxs |-> Concat(groupTxs),
     groupSums |-> SelectSeq(groupSums, LAMBDA g : g.value > 0)])))))

\* expenseByCategory after the months of `months`, in order.
RECURSIVE AccumulateAll(_, _)
AccumulateAll(obj, adds) ==
  IF adds = <<>> THEN obj
  ELSE The({AccumulateAll(next, rest) :
              next \in {Accumulate(obj, adds[1].name, adds[1].value)}, rest \in {Tail(adds)}})

\* new Date(`${y1}-${monthNames.indexOf(m1)+1}-01`)
MonthDateLedger(key) == NewDate(key.year, IndexOf(monthNames, key.name), 1)

categoryColorsLedger ==
  <<"#3b82f6", "#8b5cf6", "#10b981", "#f97316", "#ef4444", "#6366f1", "#f59e0b", "#14b8a6">>

\* sortedMonths: Object.keys(monthlyBreakdown).sort(...)
SortedMonthsLedger(monthlyBreakdown) ==
  Items(ArraySort(Strict([i \in 1..Len(monthlyBreakdown) |->
                     [item |-> monthlyBreakdown[i].key,
                      key |-> MonthDateLedger(monthlyBreakdown[i].key)]]), FALSE))

\* sortedMonths.slice(0, 6): the window taken from the wrong end.
TrailingWindowFromStart(sortedMonths) == SliceFirst(sortedMonths, WindowSize)

\* sortedMonths.slice(-6)
TrailingWindow(sortedMonths) == SliceLast(sortedMonths, WindowSize)

RECURSIVE RunningTotals(_, _)
RunningTotals(nets, start) ==
  IF nets = <<>> THEN <<>>
  ELSE <<start + nets[1]>> \o RunningTotals(Tail(nets), start + nets[1])

\* recentTransactions.sort((a, b) => a.date - b.date).reverse().slice(0, 7):
\* descending, but records of one date in the reverse of their insertion.
SortedTransactionsReversedAscending(recentTransactions) ==
  SliceFirst(Reverse(Items(ArraySort(Strict([i \in 1..Len(recentTransactions) |->
                                        [item |-> recentTransactions[i],
                                         key |-> recentTransactions[i].date]]), FALSE))),
             RecentCountLedger)

\* recentTransactions.sort((a, b) => b.date - a.date).slice(0, 7)
SortedTransactionsLedger(recentTransactions) ==
  SliceFirst(Items(ArraySort(Strict([i \in 1..Len(recentTransactions) |->
                                [item |-> recentTransactions[i],
                                 key |-> recentTransactions[i].date]]), TRUE)),
             RecentCountLedger)

\* The accumulators after the loops of lines 91-152 and the YTD block.
LocalsLedger(yearsData, currentYear) ==
  With(MonthSlots(yearsData), LAMBDA slots :
  With(Strict([i \in 1..Len(slots) |->
         MonthLedger(slots[i], yearsData[slots[i].year][slots[i].month])]),
       LAMBDA months :
  With(IF currentYear \in DOMAIN yearsData
       THEN MonthsOfYear(yearsData, currentYear) ELSE <<>>,
       LAMBDA currentMonths :
  With(SumSeq(Strict([i \in 1..Len(currentMonths) |->
         SumOfKeys(CategoriesOf(currentMonths[i]), allIncomeKeysLedger)])),
       LAMBDA ytdIncome :
  With(SumSeq(Strict([i \in 1..Len(currentMonths) |->
         SumOfKeys(CategoriesOf(currentMonths[i]), allExpenseKeysLedger)])),
       LAMBDA ytdExpense :
    [monthlyBreakdown |-> Strict([i \in 1..Len(months) |->
                             [key |-> months[i].key, income |-> months[i].income,
                              expense |-> months[i].expense]]),
     expenseByCategory |->
        AccumulateAll(<<>>, Concat(Strict([i \in 1..Len(months) |->
                         IF months[i].year = currentYear THEN months[i].groupSums ELSE <<>>]))),
     recentTransactions |-> Concat(Strict([i \in 1..Len(months) |->
                                      months[i].incomeTxs \o months[i].expenseTxs])),
     incomeTransactionCount |-> SumSeq(Strict([i \in 1..Len(months) |-> Len(months[i].incomeTxs)])),
     expenseTransactionCount |-> SumSeq(Strict([i \in 1..Len(months) |-> Len(months[i].expenseTxs)])),
     ytdIncome |-> ytdIncome,
     ytdExpense |-> ytdExpense,
     ytdNetProfit |-> ytdIncome - ytdExpense])))))

\* The report of lines 166-210.
ReportLedger(locals) ==
  With(TrailingWindow(SortedMonthsLedger(locals.monthlyBreakdown)), LAMBDA window :
  With(Strict([i \in 1..Len(window) |->
         [name |-> window[i],
          income |-> BreakdownOf(locals.monthlyBreakdown, window[i]).income,
          expense |-> BreakdownOf(locals.monthlyBreakdown, window[i]).expense]]),
       LAMBDA monthlyComparisonData :
  With(Strict([i \in 1..Len(window) |->
         monthlyComparisonData[i].income - monthlyComparisonData[i].expense]),
       LAMBDA nets :
  With(RunningTotals(nets, 0), LAMBDA cumulative :
  With(Strict([i \in 1..Len(window) |->
         [name |-> window[i], net |-> nets[i], cumulative |-> cumulative[i]]]),
       LAMBDA netProfitTrendData :
  With(Items(ArraySort(Strict([i \in 1..Len(locals.expenseByCategory) |->
                          [item |-> locals.expenseByCategory[i],
                           key |-> Finite(locals.expenseByCategory[i].value)]]), TRUE)),
       LAMBDA sortedExpenses :
  With(Strict([i \in 1..Len(sortedExpenses) |->
         [name |-> sortedExpenses[i].name, value |-> sortedExpenses[i].value,
          color |-> categoryColorsLedger[((i - 1) % Len(categoryColorsLedger)) + 1]]]),
       LAMBDA expenseByCategoryData :
    [kpi |-> [ytdNetProfit |-> MathRound(locals.ytdNetProfit),
              ytdIncome |-> MathRound(locals.ytdIncome),
              ytdExpense |-> MathRound(locals.ytdExpense),
              totalTransactions |->
                locals.incomeTransactionCount + locals.expenseTransactionCount],
     charts |->
       [monthlyComparison |->
          IF Len(monthlyComparisonData) > 0 THEN monthlyComparisonData
          ELSE <<[name |-> NoDataName, income |-> 0, expense |-> 0]>>,
        expenseComposition |->
          IF Len(expenseByCategoryData) > 0 THEN expenseByCategoryData
          ELSE <<[name |-> "no_data", value |-> 1, color |-> "#6b7280"]>>,
        netProfitTrend |->
          IF Len(netProfitTrendData) > 0 THEN netProfitTrendData
          ELSE <<[name |-> NoDataName, net |-> 0, cumulative |-> 0]>>],
     recentTransactions |-> SortedTransactionsLedger(locals.recentTransactions)])))))))

----------------------------------------------------------------------------
(* Variant "trend": src/server.js 280-432 *)

categoriesDefinitionTrend ==
  << [label |-> "income", key |-> <<"income">>,
      items |-> <<"sales_cash", "sales_credit", "sales_cheques", "sales_transfer", "sales_other">>],
     [label |-> "income_exempt", key |-> <<"income", "exempt">>,
      items |-> <<"exempt_sales_cash", "exempt_sales_credit", "exempt_sales_cheques",
                  "exempt_sales_transfer", "exempt_sales_other">>],
     [label |-> "suppliers", key |-> <<"suppliers">>,
      items |-> <<"supplier_1", "supplier_2", "supplier_3", "supplier_4", "supplier_5",
                  "supplier_6", "supplier_7", "supplier_8", "supplier_9", "supplier_10">>],
     [label |-> "variable_expenses", key |-> <<"variable", "expenses">>,
      items |-> <<"electricity", "water", "packaging", "marketing", "custom_var_1",
                  "custom_var_2", "custom_var_3", "custom_var_4", "car_expenses",
                  "phone_expenses", "partial_custom_1", "partial_custom_2">>],
     [label |-> "loans", key |-> <<"loans">>,
      items |-> <<"loan_1", "loan_2", "loan_3", "loan_4", "loan_5", "loan_6", "loan_7",
                  "loan_8", "loan_9", "loan_10">>],
     [label |-> "fixed_expenses", key |-> <<"fixed", "expenses">>,
      items |-> <<"rent", "arnona", "insurance", "accounting", "communication", "software",
                  "custom_fixed_1", "custom_fixed_2", "custom_fixed_3", "custom_fixed_4">>],
     [label |-> "salaries_and_payments", key |-> <<"salaries", "and", "taxes">>,
      items |-> <<"salaries", "social_security", "income_tax", "vat_payment", "vat_field",
                  "custom_tax_1", "custom_tax_2", "custom_tax_3", "custom_tax_4">>],
     [label |-> "misc", key |-> <<"misc">>, items |-> <<"misc">>] >>

ItemsTrend(label) ==
  (CHOOSE g \in Range(categoriesDefinitionTrend) : g.label = label).items

allIncomeKeysTrend == ItemsTrend("income") \o ItemsTrend("income_exempt")

\* .filter(group => !group.key.includes('income')).flatMap(group => group.items)
allExpenseKeysTrend ==
  LET groups == SelectSeq(categoriesDefinitionTrend,
                          LAMBDA g : ~StringIncludes(g.key, <<"income">>))
  IN Concat(Strict([i \in 1..Len(groups) |-> groups[i].items]))

\* groupMapping with "salaries" also left among the fixed expenses, where the
\* taxonomy of the ledger variant has it.
groupMappingCountingSalariesTwice ==
  << [groupName |-> "suppliers", catKeys |-> ItemsTrend("suppliers")],
     [groupName |-> "fixed_expenses", catKeys |-> ItemsTrend("fixed_expenses") \o <<"salaries">>],
     [groupName |-> "variable_expenses", catKeys |-> ItemsTrend("variable_expenses")],
     [groupName |-> "salaries_and_taxes", catKeys |-> ItemsTrend("salaries_and_payments")],
     [groupName |-> "loans", catKeys |-> ItemsTrend("loans")],
     [groupName |-> "misc", catKeys |-> ItemsTrend("misc")] >>

\* groupMapping, lines 343-350: the chart's group names and their keys.
groupMapping ==
  << [groupName |-> "suppliers", catKeys |-> ItemsTrend("suppliers")],
     [groupName |-> "fixed_expenses", catKeys |-> ItemsTrend("fixed_expenses")],
     [groupName |-> "variable_expenses", catKeys |-> ItemsTrend("variable_expenses")],
     [groupName |-> "salaries_and_taxes", catKeys |-> ItemsTrend("salaries_and_payments")],
     [groupName |-> "loans", catKeys |-> ItemsTrend("loans")],
     [groupName |-> "misc", catKeys |-> ItemsTrend("misc")] >>

\* One pass of the inner loop body for a month: lines 319-361.
MonthTrend(slot, monthData) ==
  With(CategoriesOf(monthData), LAMBDA categoriesData :
  With(Strict([g \in 1..Len(groupMapping) |->
         [name |-> groupMapping[g].groupName,
          value |-> SumOfKeys(categoriesData, groupMapping[g].catKeys)]]),
       LAMBDA groups :
    [key |-> MonthKey(slot),
     income |-> SumOfKeys(categoriesData, allIncomeKeysTrend),
     expense |-> SumSeq(Strict([g \in 1..Len(groups) |-> groups[g].value])),
     groups |-> groups]))

\* new Date(name.replace(/([alef-tav]+) (\d+)/, '$1 1, $2')) under V8's
\* legacy parser: a leading unknown word is skipped. "<word> 1, <year>"
\* reads month 1, day <year>: an Invalid Date. A name ending with a geresh
\* is not matched by the pattern, the text stays "<word> <year>", and a
\* lone year reads as 1 January of that year.
MonthDateTrend(key) ==
  IF key.name \in PlainLetterNames THEN NaN ELSE NewDate(key.year, 0, 1)

SortedMonthsTrend(monthlyBreakdown) ==
  Items(ArraySort(Strict([i \in 1..Len(monthlyBreakdown) |->
                     [item |-> monthlyBreakdown[i].key,
                      key |-> MonthDateTrend(monthlyBreakdown[i].key)]]), FALSE))

categoryColorsTrend(name) ==
  CASE name = "suppliers" -> "#3b82f6"
    [] name = "fixed_expenses" -> "#8b5cf6"
    [] name = "variable_expenses" -> "#ef4444"
    [] name = "salaries_and_taxes" -> "#f97316"
    [] name = "loans" -> "#14b8a6"
    [] name = "misc" -> "#64748b"
    [] OTHER -> "#6b7280"

\* yearsData[currentYear][currentMonth] || { categories: {} }
CurrentMonthData(yearsData, currentYear, currentMonth) ==
  IF currentMonth \in DOMAIN yearsData[currentYear]
  THEN yearsData[currentYear][currentMonth]
  ELSE [hasCategories |-> TRUE, categories |-> <<>>]

\* Line 386 reads a property of currentMonthData.categories: a TypeError
\* when that is undefined.
ThrowsTrend(yearsData, currentYear, currentMonth) ==
  /\ currentYear \in DOMAIN yearsData
  /\ ~CurrentMonthData(yearsData, currentYear, currentMonth).hasCategories

TypeErrorMessage ==
  <<"Cannot", "read", "properties", "of", "undefined", "(", "reading", "'", "salaries", "'", ")">>

\* The accumulators after the loops of lines 317-363 and the block 366-394.
LocalsTrend(yearsData, currentYear, currentMonth) ==
  With(MonthSlots(yearsData), LAMBDA slots :
  With(Strict([i \in 1..Len(slots) |->
         MonthTrend(slots[i], yearsData[slots[i].year][slots[i].month])]),
       LAMBDA months :
  With(currentYear \in DOMAIN yearsData, LAMBDA hasYear :
  With(IF hasYear THEN MonthsOfYear(yearsData, currentYear) ELSE <<>>,
       LAMBDA currentMonths :
  With(IF hasYear THEN CurrentMonthData(yearsData, currentYear, currentMonth).categories
       ELSE <<>>,
       LAMBDA currentCategories :
  With(MonthKey([year |-> currentYear, month |-> currentMonth]), LAMBDA currentKey :
  With(SelectSeq(months, LAMBDA m : hasYear /\ m.key = currentKey), LAMBDA currentTrend :
    [monthlyBreakdown |-> Strict([i \in 1..Len(months) |->
                             [key |-> months[i].key, income |-> months[i].income,
                              expense |-> months[i].expense]]),
     expenseTrendBreakdown |-> Strict([i \in 1..Len(months) |->
                                  [key |-> months[i].key, groups |-> months[i].groups]]),
     ytdNetProfit |->
       SumSeq(Strict([i \in 1..Len(currentMonths) |->
                 SumOfKeys(CategoriesOf(currentMonths[i]), allIncomeKeysTrend)
                 - SumOfKeys(CategoriesOf(currentMonths[i]), allExpenseKeysTrend)])),
     currentMonthSalaries |-> ReduceSum(DailyValues(currentCategories, "salaries")),
     currentMonthLoans |-> SumOfKeys(currentCategories, ItemsTrend("loans")),
     currentMonthSuppliers |-> SumOfKeys(currentCategories, ItemsTrend("suppliers")),
     monthlyExpenseComposition |->
       IF currentTrend = <<>> THEN <<>>
       ELSE SelectSeq(currentTrend[1].groups, LAMBDA g : g.value > 0)])))))))

\* The report of lines 396-431.
ReportTrend(locals) ==
  With(TrailingWindow(SortedMonthsTrend(locals.monthlyBreakdown)), LAMBDA window :
  With(Strict([i \in 1..Len(window) |->
         [name |-> window[i],
          income |-> BreakdownOf(locals.monthlyBreakdown, window[i]).income,
          expense |-> BreakdownOf(locals.monthlyBreakdown, window[i]).expense]]),
       LAMBDA monthlyComparisonData :
  With(Strict([i \in 1..Len(window) |->
         [name |-> window[i],
          groups |-> BreakdownOf(locals.expenseTrendBreakdown, window[i]).groups]]),
       LAMBDA expenseTrendData :
  With(Items(ArraySort(Strict([i \in 1..Len(locals.monthlyExpenseComposition) |->
                          [item |-> locals.monthlyExpenseComposition[i],
                           key |-> Finite(locals.monthlyExpenseComposition[i].value)]]), TRUE)),
       LAMBDA sortedComposition :
    [kpi |-> [ytdNetProfit |-> MathRound(locals.ytdNetProfit),
              monthlySalaries |-> MathRound(locals.currentMonthSalaries),
              monthlyLoans |-> MathRound(locals.currentMonthLoans),
              monthlySuppliers |-> MathRound(locals.currentMonthSuppliers)],
     charts |->
       [monthlyComparison |-> monthlyComparisonData,
        monthlyExpenseComposition |->
          Strict([i \in 1..Len(sortedComposition) |->
             [name |-> sortedComposition[i].name, value |-> sortedComposition[i].value,
              color |-> categoryColorsTrend(sortedComposition[i].name)]]),
        expenseTrend |-> expenseTrendData]]))))

----------------------------------------------------------------------------
(* Variant "revenue": src/unnamed/part_000 51-145 *)

\* A category key as the words between its underscores, for the keys that
\* ledgers of the model hold.
KeyWords(catKey) ==
  CASE catKey = "sales_cash" -> <<"sales", "cash">>
    [] catKey = "sales_credit" -> <<"sales", "credit">>
    [] catKey = "exempt_sales_cash" -> <<"exempt", "sales", "cash">>
    [] catKey = "sales_online" -> <<"sales", "online">>
    [] catKey = "supplier_1" -> <<"supplier", "1">>
    [] catKey = "loan_1" -> <<"loan", "1">>
    [] catKey = "car_expenses" -> <<"car", "expenses">>
    [] OTHER -> <<catKey>>

\* catKey.includes("sales") || catKey.includes("exempt")
IsRevenueKey(catKey) ==
  \/ StringIncludes(KeyWords(catKey), <<"sales">>)
  \/ StringIncludes(KeyWords(catKey), <<"exempt">>)

\* for (const catKey in categories): the order of the map's fields, which
\* the store returns sorted by name.
FieldOrder ==
  <<"car_expenses", "exempt_sales_cash", "loan_1", "misc", "rent", "salaries", "sales_cash",
    "sales_credit", "sales_online", "supplier_1", "tips">>

FieldsOf(categories) == SelectSeq(FieldOrder, LAMBDA k : k \in DOMAIN categories)

\* dailyValues.forEach((value, day) => { if (Number(value) > 0) push({...}) })
TransactionsOfKeyRevenue(slot, categories, catKey) ==
  With(categories[catKey], LAMBDA dailyValues :
  With(Strict([i \in 1..Len(dailyValues) |->
         [id |-> <<slot.year, slot.month, i - 1, catKey>>,
          company |-> catKey,
          number |-> ToNumber(dailyValues[i]),
          type |-> "inflow"]]),
       LAMBDA cells :
  With(SelectSeq(cells, LAMBDA t : ~t.number.nan /\ t.number.n > 0), LAMBDA kept :
    Strict([i \in 1..Len(kept) |->
       [id |-> kept[i].id, company |-> kept[i].company, amount |-> kept[i].number.n,
        type |-> kept[i].type]]))))

\* One pass of the inner loop body for a month: lines 75-114.
MonthRevenue(slot, monthData) ==
  With(CategoriesOf(monthData), LAMBDA categories :
  With(SelectSeq(FieldsOf(categories), IsRevenueKey), LAMBDA fields :
  With(Strict([i \in 1..Len(fields) |->
         [name |-> fields[i], value |-> ReduceSum(categories[fields[i]])]]),
       LAMBDA sums :
  With(SelectSeq(sums, LAMBDA c : c.value > 0), LAMBDA counted :
    [key |-> [year |-> slot.year, name |-> monthNames[slot.month + 1]],
     revenue |-> SumSeq(Strict([i \in 1..Len(counted) |-> counted[i].value])),
     byCategory |-> counted,
     txs |-> Concat(Strict([i \in 1..Len(counted) |->
                       TransactionsOfKeyRevenue(slot, categories, counted[i].name)]))]))))

categoryColorsRevenue == <<"#0ea5e9", "#8b5cf6", "#10b981", "#f97316", "#ef4444">>

\* The accumulators after the loops of lines 73-116.
LocalsRevenue(yearsData) ==
  With(MonthSlots(yearsData), LAMBDA slots :
  With(Strict([i \in 1..Len(slots) |->
         MonthRevenue(slots[i], yearsData[slots[i].year][slots[i].month])]),
       LAMBDA months :
  With(SelectSeq(months, LAMBDA m : m.revenue # 0), LAMBDA kept :
    [totalRevenue |-> SumSeq(Strict([i \in 1..Len(months) |-> months[i].revenue])),
     monthlyRevenue |-> Strict([i \in 1..Len(kept) |->
                           [key |-> kept[i].key, revenue |-> kept[i].revenue]]),
     revenueByCategory |->
       AccumulateAll(<<>>, Concat(Strict([i \in 1..Len(months) |-> months[i].byCategory]))),
     recentTransactions |-> Concat(Strict([i \in 1..Len(months) |-> months[i].txs])),
     transactionCount |-> SumSeq(Strict([i \in 1..Len(months) |-> Len(months[i].txs)]))])))

\* Math.round(x / d) for an amount x held in 1/Scale units
MathRoundRatio(x, d) == (2 * x + Scale * d) \div (2 * Scale * d)

\* The report of lines 118-144.
ReportRevenue(locals) ==
  With(Strict([i \in 1..Len(locals.monthlyRevenue) |->
         [name |-> locals.monthlyRevenue[i].key.name,
          revenue |-> locals.monthlyRevenue[i].revenue]]),
       LAMBDA monthlyRevenueData :
  With(Strict([i \in 1..Len(locals.revenueByCategory) |->
         [name |-> locals.revenueByCategory[i].name,
          value |-> locals.revenueByCategory[i].value,
          color |-> categoryColorsRevenue[((i - 1) % Len(categoryColorsRevenue)) + 1]]]),
       LAMBDA revenueByCategoryData :
    [mainMetrics |->
       [totalRevenue |-> MathRound(locals.totalRevenue),
        activeUsers |-> locals.transactionCount,
        avgMonthlyRevenue |->
          IF Len(monthlyRevenueData) > 0
          THEN MathRoundRatio(locals.totalRevenue, Len(monthlyRevenueData)) ELSE 0],
     monthlyRevenueData |->
       IF Len(monthlyRevenueData) > 0 THEN monthlyRevenueData
       ELSE <<[name |-> "no_data", revenue |-> 0]>>,
     revenueByCategoryData |->
       IF Len(revenueByCategoryData) > 0 THEN revenueByCategoryData
       ELSE <<[name |-> "no_data", value |-> 1, color |-> "#6b7280"]>>,
     recentTransactions |->
       Reverse(SliceLast(locals.recentTransactions, RecentCountRevenue))]))

----------------------------------------------------------------------------
(* Variant "flat": src/unnamed/part_001 51-122 *)

\* userData.transactions || []  followed by  Array.isArray(transactions).
\* The field is absent, or holds a falsy value (null, 0, "", false), an
\* array, or another truthy value ("object").
TransactionsField(userData) ==
  IF userData.transactions.kind \in {"absent", "falsy"}
  THEN [kind |-> "array", items |-> <<>>]
  ELSE userData.transactions

\* typeof transaction.amount === 'number' && transaction.amount > 0
CountsAsRevenue(transaction) ==
  transaction.amount.t = "number" /\ transaction.amount.n > 0

\* transaction.amount || 0: a falsy amount (0, "", null, false) becomes 0
AmountOrZero(amount) ==
  IF \/ amount.t = "null"
     \/ (amount.t = "number" /\ amount.n = 0)
     \/ (amount.t = "string" /\ amount.s = "")
     \/ (amount.t = "boolean" /\ amount.n = 0)
  THEN Num(0) ELSE amount

\* (transaction.amount || 0) >= 0 ? "inflow" : "outflow"
TypeOfAmount(amount) ==
  LET x == ToNumber(AmountOrZero(amount))
  IN IF ~x.nan /\ x.n >= 0 THEN "inflow" ELSE "outflow"

LocalsFlat(transactions) ==
  With(SelectSeq(transactions, CountsAsRevenue), LAMBDA revenue :
    [totalRevenue |-> SumSeq(Strict([i \in 1..Len(revenue) |-> revenue[i].amount.n])),
     recentTransactions |->
       Strict([i \in 1..Len(transactions) |->
          [id |-> IF transactions[i].id = "" THEN <<"tx", i - 1>> ELSE <<transactions[i].id>>,
           amount |-> AmountOrZero(transactions[i].amount),
           type |-> TypeOfAmount(transactions[i].amount)]])])

\* The report of lines 102-121 (the mocked series are left out).
ReportFlat(locals, transactions) ==
  [mainMetrics |-> [totalRevenue |-> locals.totalRevenue,
                    activeUsers |-> Len(transactions)],
   recentTransactions |-> Reverse(SliceLast(locals.recentTransactions, RecentCountFlat))]

----------------------------------------------------------------------------
(* The request path: middleware, getDashboardDataForUser, route handler *)

Variants == {"ledger", "trend", "revenue", "flat"}

\* The comparison alone, with an absent header let through.
authenticateApiKeyPassingAbsentHeader(v, receivedApiKey) ==
  IF v # "flat" /\ API_KEY = "" THEN TRUE
  ELSE ~(receivedApiKey # "" /\ receivedApiKey # API_KEY)

\* authenticateApiKey: TRUE when the request goes on to the handler. An
\* unset API_KEY and an absent header are both "".
authenticateApiKey(v, receivedApiKey) ==
  IF v # "flat" /\ API_KEY = "" THEN TRUE
  ELSE ~(receivedApiKey = "" \/ receivedApiKey # API_KEY)

\* userData.years || {}
YearsOf(userData) == IF userData.hasYears THEN userData.years ELSE <<>>

NotFoundMessage(v, userId) ==
  IF v = "flat"
  THEN <<"User", "with", "ID", "'">> \o userId \o <<"'", "not", "found", "in", "the", "database", ".">>
  ELSE <<"User", "with", "ID", "'">> \o userId \o <<"'", "not", "found", ".">>

DataFormatMessage(userId) ==
  <<"Data", "format", "error", ":", "The", "'", "transactions", "'", "field", "for", "user", "'">>
  \o userId \o <<"'", "is", "not", "an", "array", ".">>

\* The error a rejected userDocRef.get() leaves getDashboardDataForUser with.
StoreFailureMessage(v, text) ==
  IF v = "flat"
  THEN <<"Could", "not", "access", "database", ".", "Check", "server", "permissions", "and",
         "connectivity", ".", "Original", "error", ":">> \o text
  ELSE text

Thrown(outcome, message) ==
  [outcome |-> outcome, message |-> message, locals |-> <<>>, data |-> <<>>]

Returned(locals, data) ==
  [outcome |-> "report", message |-> <<>>, locals |-> locals, data |-> data]

\* getDashboardDataForUser after the document was read.
getDashboardDataForUser(v, userId, doc, today) ==
  IF ~doc.exists THEN Thrown("no_document", NotFoundMessage(v, userId))
  ELSE CASE v = "ledger" ->
              With(LocalsLedger(YearsOf(doc), today.year),
                   LAMBDA locals : Returned(locals, ReportLedger(locals)))
         [] v = "trend" ->
              IF ThrowsTrend(YearsOf(doc), today.year, today.month)
              THEN Thrown("exception", TypeErrorMessage)
              ELSE With(LocalsTrend(YearsOf(doc), today.year, today.month),
                        LAMBDA locals : Returned(locals, ReportTrend(locals)))
         [] v = "revenue" ->
              With(LocalsRevenue(YearsOf(doc)),
                   LAMBDA locals : Returned(locals, ReportRevenue(locals)))
         [] OTHER ->
              With(TransactionsField(doc), LAMBDA transactions :
                IF transactions.kind # "array"
                THEN Thrown("data_shape", DataFormatMessage(userId))
                ELSE With(LocalsFlat(transactions.items),
                          LAMBDA locals : Returned(locals, ReportFlat(locals, transactions.items))))

\* error.message.includes("not found") ? 404 : 500
StatusOfError(message) ==
  IF StringIncludes(message, <<"not", "found">>) THEN 404 ELSE 500

\* The route handler's answer to what getDashboardDataForUser did.
Respond(result) ==
  IF result.outcome = "report"
  THEN [status |-> 200, body |-> result.data]
  ELSE [status |-> StatusOfError(result.message), body |-> result.message]

\* A request: where it stands, what it carried (the userId of the path, the
\* year of the query string, 0 when it has none, and the x-api-key header,
\* "" when it has none), what the handler's call left and what was answered.
Idle ==
  [pc |-> "idle", userId |-> <<>>, selectedYear |-> 0, receivedApiKey |-> "",
   outcome |-> "none", locals |-> <<>>,
   response |-> [status |-> 0, body |-> <<>>]]

HeaderKeys == {"", "secret", "wrong"}

\* The ?year= a request may carry: none, or a year no ledger holds. The
\* handlers read req.params only.
YearQueries == {0, 2024}

\* Texts a failed read of the store may carry.
StoreErrorTexts == {<<"DEADLINE_EXCEEDED">>, <<"database", "not", "found">>}

\* The middleware answers 403 and the handler never runs.
Forbidden(r, userId, selectedYear, receivedApiKey) ==
  /\ reqs[r].pc = "idle"
  /\ ~authenticateApiKey(variant, receivedApiKey)
  /\ reqs' = [reqs EXCEPT ![r] =
                [Idle EXCEPT !.pc = "done", !.userId = userId, !.selectedYear = selectedYear,
                             !.receivedApiKey = receivedApiKey, !.outcome = "forbidden",
                             !.response = [status |-> 403,
                                           body |-> <<"Forbidden", ":", "Invalid", "API", "key", ".">>]]]
  /\ UNCHANGED <<db, variant, API_KEY, now>>

\* The middleware calls next(); the handler starts the read and suspends.
StartFetch(r, userId, selectedYear, receivedApiKey) ==
  /\ reqs[r].pc = "idle"
  /\ authenticateApiKey(variant, receivedApiKey)
  /\ reqs' = [reqs EXCEPT ![r] = [Idle EXCEPT !.pc = "fetching", !.userId = userId,
                                          !.selectedYear = selectedYear,
                                          !.receivedApiKey = receivedApiKey]]
  /\ UNCHANGED <<db, variant, API_KEY, now>>

\* The read fails: the handler's catch answers.
GetRejected(r, text) ==
  /\ reqs[r].pc = "fetching"
  /\ \E result \in {Thrown("store_failure", StoreFailureMessage(variant, text))} :
        reqs' = [reqs EXCEPT ![r] =
                   [@ EXCEPT !.pc = "done", !.outcome = result.outcome,
                             !.response = Respond(result)]]
  /\ UNCHANGED <<db, variant, API_KEY, now>>

\* The document held in one variable of the module, which every request in
\* flight assigns: a request resumes on the document of any of them.
GetResolvedOnSharedDocument(r) ==
  /\ reqs[r].pc = "fetching"
  /\ \E q \in {x \in DOMAIN reqs : reqs[x].pc # "idle"} :
      \E result \in {getDashboardDataForUser(variant, reqs[r].userId, db[reqs[q].userId], now)} :
        reqs' = [reqs EXCEPT ![r] =
                   [@ EXCEPT !.pc = "done", !.outcome = result.outcome,
                             !.locals = result.locals, !.response = Respond(result)]]
  /\ UNCHANGED <<db, variant, API_KEY, now>>

\* The read succeeds: the rest of the request runs to its answer. Every
\* accumulator is a local of the call (lines 82-86, 155-156), and nothing
\* suspends after the read.
GetResolved(r) ==
  /\ reqs[r].pc = "fetching"
  /\ \E result \in {getDashboardDataForUser(variant, reqs[r].userId, db[reqs[r].userId], now)} :
        reqs' = [reqs EXCEPT ![r] =
                   [@ EXCEPT !.pc = "done", !.outcome = result.outcome,
                             !.locals = result.locals, !.response = Respond(result)]]
  /\ UNCHANGED <<db, variant, API_KEY, now>>

Next ==
  \/ \E r \in DOMAIN reqs, userId \in DOMAIN db, y \in YearQueries, k \in HeaderKeys :
        Forbidden(r, userId, y, k)
  \/ \E r \in DOMAIN reqs, userId \in DOMAIN db, y \in YearQueries, k \in HeaderKeys :
        StartFetch(r, userId, y, k)
  \/ \E r \in DOMAIN reqs, text \in StoreErrorTexts : GetRejected(r, text)
  \/ \E r \in DOMAIN reqs : GetResolved(r)

----------------------------------------------------------------------------
(* The documents, dates and requests the specifications start from *)

Today == [year |-> 2026, month |-> 10]

EmptyMonth == [hasCategories |-> TRUE, categories |-> <<>>]

\* A month record without a categories map.
BareMonth == [hasCategories |-> FALSE, categories |-> <<>>]

HasMonth(years, slot) ==
  slot.year \in DOMAIN years /\ slot.month \in DOMAIN years[slot.year]

WithMonth(years, slot, monthData) ==
  [y \in DOMAIN years \cup {slot.year} |->
     [m \in (IF y \in DOMAIN years THEN DOMAIN years[y] ELSE {})
            \cup (IF y = slot.year THEN {slot.month} ELSE {}) |->
        IF y = slot.year /\ m = slot.month THEN monthData ELSE years[y][m]]]

\* The ledger with one more daily entry under cell.key of month cell.slot.
AddCell(years, cell) ==
  LET categories == IF HasMonth(years, cell.slot)
                    THEN years[cell.slot.year][cell.slot.month].categories ELSE <<>>
  IN WithMonth(years, cell.slot,
       [hasCategories |-> TRUE,
        categories |-> [k \in DOMAIN categories \cup {cell.key} |->
                          IF k = cell.key
                          THEN Append(DailyValues(categories, k), cell.entry)
                          ELSE categories[k]]])

RECURSIVE LedgerOf(_)
LedgerOf(cells) ==
  IF cells = <<>> THEN <<>>
  ELSE The({AddCell(years, cells[Len(cells)]) :
              years \in {The({LedgerOf(front) : front \in {SubSeq(cells, 1, Len(cells) - 1)}})}})

CellSeqs(cells, n) == UNION {[1..k -> cells] : k \in 0..n}

UserDoc(years) ==
  [exists |-> TRUE, hasYears |-> TRUE, years |-> years,
   transactions |-> [kind |-> "absent", items |-> <<>>]]

NoDoc == [exists |-> FALSE]

\* The worked example of the specification: July 2025, sales_cash 100, 0, 50.
ExampleLedger ==
  LedgerOf(Strict([i \in 1..3 |->
              [slot |-> [year |-> 2025, month |-> 6], key |-> "sales_cash",
               entry |-> Num(<<100, 0, 50>>[i] * Scale)]]))

(* Sums: few cells, of every kind of key and entry *)

PreviousSlot == [year |-> 2025, month |-> 11]
EarlierSlot == [year |-> 2026, month |-> 2]
CurrentSlot == [year |-> Today.year, month |-> Today.month]

\* A ledger with several keys a month: income, two expense groups, a key
\* outside the taxonomy.
BusyLedger ==
  LedgerOf(<< [slot |-> CurrentSlot, key |-> "sales_cash", entry |-> Num(2)],
              [slot |-> CurrentSlot, key |-> "sales_cash", entry |-> Num(-3)],
              [slot |-> CurrentSlot, key |-> "exempt_sales_cash", entry |-> Num(2)],
              [slot |-> CurrentSlot, key |-> "supplier_1", entry |-> Num(2)],
              [slot |-> CurrentSlot, key |-> "supplier_1", entry |-> Num(3)],
              [slot |-> CurrentSlot, key |-> "salaries", entry |-> Num(2)],
              [slot |-> CurrentSlot, key |-> "tips", entry |-> Num(2)],
              [slot |-> EarlierSlot, key |-> "sales_cash", entry |-> Num(-3)],
              [slot |-> EarlierSlot, key |-> "salaries", entry |-> Num(2)],
              [slot |-> PreviousSlot, key |-> "sales_cash", entry |-> Num(2)],
              [slot |-> PreviousSlot, key |-> "supplier_1", entry |-> Num(-3)] >>)

SumKeys == {"sales_cash", "supplier_1", "salaries", "sales_online", "tips"}

SumEntries == {Num(2), Num(-3), Str("abc"), Bool(TRUE)}

SumCells ==
  [slot : {PreviousSlot, CurrentSlot}, key : SumKeys, entry : SumEntries]

SumLedgers ==
  {LedgerOf(cs) : cs \in CellSeqs(SumCells, MaxCells)}
  \cup {WithMonth(years, CurrentSlot, BareMonth) :
          years \in {LedgerOf(cs) :
                       cs \in CellSeqs({c \in SumCells : c.slot # CurrentSlot}, MaxCells - 1)}}
  \cup {ExampleLedger, BusyLedger}

(* Windows: many months, one entry each *)

WindowMonthOrder == <<0, 2, 5, 11, 6, 9, 3, 8, 1, 4, 7, 10>>

WindowSlots ==
  [year : {2025, 2026}, month : {WindowMonthOrder[i] : i \in 1..Min(MonthsPerYear, 12)}]

WindowCell(slot) ==
  [slot |-> slot,
   key |-> IF slot.month % 2 = 0 THEN "sales_cash" ELSE "supplier_1",
   entry |-> Num(slot.month + 1)]

RECURSIVE LedgerOfSlots(_)
LedgerOfSlots(S) ==
  IF S = {} THEN <<>>
  ELSE The({AddCell(years, WindowCell(slot)) :
              years \in {The({LedgerOfSlots(rest) : rest \in {S \ {The(S)}}})},
              slot \in {The(S)}})

WindowLedgers == {LedgerOfSlots(S) : S \in SUBSET WindowSlots}

(* Transactions: every cell of a small grid zero or positive *)

TxSlots == {[year |-> 2026, month |-> 0], [year |-> 2026, month |-> 1]}

TxKeys == <<"sales_cash", "supplier_1">>

TxGrid == {<<slot, k>> : slot \in TxSlots, k \in Range(TxKeys)}

TxLedgerOf(f) ==
  [y \in {2026} |->
     [m \in {0, 1} |->
        [hasCategories |-> TRUE,
         categories |-> [k \in Range(TxKeys) |-> f[<<[year |-> y, month |-> m], k>>]]]]]

TxLedgers ==
  {TxLedgerOf(f) : f \in [TxGrid -> [1..TxDays -> {Num(0), Num(Scale)}]]}

(* Handler: a few documents of every shape *)

FlatDoc(kind, items) ==
  [exists |-> TRUE, hasYears |-> FALSE, years |-> <<>>,
   transactions |-> [kind |-> kind, items |-> items]]

FlatItems ==
  <<[id |-> "a1", amount |-> Num(3)], [id |-> "", amount |-> Num(-2)],
    [id |-> "", amount |-> Str("abc")]>>

HandlerDocs ==
  {NoDoc,
   UserDoc(ExampleLedger),
   UserDoc(WithMonth(<<>>, CurrentSlot, BareMonth)),
   FlatDoc("absent", <<>>),
   FlatDoc("falsy", <<>>),
   FlatDoc("array", FlatItems),
   FlatDoc("object", <<>>)}

AllUserIds == {<<"u1">>, <<"not", "found">>}

InitWith(userIds, docs, variants, apiKeys, requests) ==
  /\ db \in [userIds -> docs]
  /\ variant \in variants
  /\ API_KEY \in apiKeys
  /\ now = Today
  /\ reqs = [r \in requests |-> Idle]

Init == InitWith(AllUserIds, HandlerDocs, Variants, {"", "secret"}, {"r1"})

InitSums ==
  InitWith({<<"u1">>}, {UserDoc(l) : l \in SumLedgers}, {"ledger", "trend", "revenue"},
           {"secret"}, {"r1"})

InitWindow ==
  InitWith({<<"u1">>}, {UserDoc(l) : l \in WindowLedgers}, {"ledger", "trend"},
           {"secret"}, {"r1"})

InitTransactions ==
  InitWith({<<"u1">>}, {UserDoc(l) : l \in TxLedgers}, {"ledger"}, {"secret"}, {"r1"})

\* Two requests in flight, for users whose documents may differ.
ConcurrentDocs == {NoDoc, UserDoc(ExampleLedger), UserDoc(BusyLedger)}

InitConcurrent ==
  InitWith({<<"u1">>, <<"u2">>}, ConcurrentDocs, Variants, {"", "secret"}, {"r1", "r2"})

Spec == Init /\ [][Next]_vars

SpecConcurrent == InitConcurrent /\ [][Next]_vars

SpecSums == InitSums /\ [][Next]_vars

SpecWindow == InitWindow /\ [][Next]_vars

SpecTransactions == InitTransactions /\ [][Next]_vars

----------------------------------------------------------------------------
(* What the properties read from a state *)

\* The request has been answered with a report.
Reported(r) == reqs[r].pc = "done" /\ reqs[r].outcome = "report"

\* The ledger of the user the request names.
Ledger(r) == YearsOf(db[reqs[r].userId])

\* The (year, month) pairs present in a ledger.
SlotsOf(years) ==
  UNION {{[year |-> y, month |-> m] : m \in DOMAIN years[y]} : y \in DOMAIN years}

MonthIndex(slot) == slot.year * 12 + slot.month

CalendarSlot(n) == [year |-> n \div 12, month |-> n % 12]

RECURSIVE SumFn(_)
SumFn(f) ==
  IF DOMAIN f = {} THEN 0
  ELSE LET x == CHOOSE x \in DOMAIN f : TRUE
       IN f[x] + SumFn([y \in DOMAIN f \ {x} |-> f[y]])

\* The total of the daily values a month holds under the keys of keySet,
\* each entry worth ValueOf(entry), gathered from the ledger key by key.
KeyTotal(categories, keySet, ValueOf(_)) ==
  SumFn([k \in DOMAIN categories \cap keySet |->
           SumSeq([i \in 1..Len(categories[k]) |-> ValueOf(categories[k][i])])])

TaxonomyKeys ==
  UNION {Range(categoriesDefinitionTrend[g].items) : g \in 1..Len(categoriesDefinitionTrend)}

IncomeKeys == Range(allIncomeKeysTrend)

\* The index of the month named key in a per-month series, 0 when absent.
IndexOfMonth(series, key) ==
  IF \E i \in 1..Len(series) : series[i].key = key
  THEN CHOOSE i \in 1..Len(series) : series[i].key = key
  ELSE 0

----------------------------------------------------------------------------
(* C1 *)

\* C1: in the stacked-trend variant every month present in the ledger has a
\* breakdown entry whose expense is the sum of its per-group values in
\* expenseTrendBreakdown, and whose income and expense are the totals of the
\* daily values under the income keys and under the other taxonomy keys:
\* each taxonomy key is counted once.
TrendConservation ==
  \A r \in DOMAIN reqs :
    (variant = "trend" /\ Reported(r)) =>
      \A slot \in SlotsOf(Ledger(r)) :
        LET categories == CategoriesOf(Ledger(r)[slot.year][slot.month])
            i == IndexOfMonth(reqs[r].locals.monthlyBreakdown, MonthKey(slot))
            j == IndexOfMonth(reqs[r].locals.expenseTrendBreakdown, MonthKey(slot))
            month == reqs[r].locals.monthlyBreakdown[i]
            groups == reqs[r].locals.expenseTrendBreakdown[j].groups
        IN /\ i # 0 /\ j # 0
           /\ month.expense = SumSeq([g \in 1..Len(groups) |-> groups[g].value])
           /\ month.income = KeyTotal(categories, IncomeKeys, NumberOrZero)
           /\ month.expense = KeyTotal(categories, TaxonomyKeys \ IncomeKeys, NumberOrZero)

\* A month of a trend report with income and with two expense groups in use.
TrendConservationWitness ==
  \E r \in DOMAIN reqs :
    /\ variant = "trend" /\ Reported(r)
    /\ \E i \in 1..Len(reqs[r].locals.monthlyBreakdown) :
         LET groups == reqs[r].locals.expenseTrendBreakdown[i].groups
         IN /\ \E g, h \in 1..Len(groups) : g # h /\ groups[g].value > 0 /\ groups[h].value > 0
            /\ reqs[r].locals.monthlyBreakdown[i].expense > 0
            /\ reqs[r].locals.monthlyBreakdown[i].income > 0

----------------------------------------------------------------------------
(* C2 *)

CurrentMonthIsBare(years) ==
  /\ now.year \in DOMAIN years
  /\ now.month \in DOMAIN years[now.year]
  /\ ~years[now.year][now.month].hasCategories

\* C2: for the ledger of an existing user the stacked-trend variant answers
\* with a report whatever branches are missing, and the current-month KPIs
\* are 0 when the current month's record has no categories map.
MissingBranchesNeverRaise ==
  \A r \in DOMAIN reqs :
    (/\ variant = "trend"
     /\ reqs[r].pc = "done"
     /\ reqs[r].outcome \notin {"forbidden", "store_failure"}
     /\ db[reqs[r].userId].exists) =>
      /\ reqs[r].outcome = "report"
      /\ CurrentMonthIsBare(Ledger(r)) =>
           /\ reqs[r].response.body.kpi.monthlySalaries = 0
           /\ reqs[r].response.body.kpi.monthlyLoans = 0
           /\ reqs[r].response.body.kpi.monthlySuppliers = 0

----------------------------------------------------------------------------
(* C3 *)

\* A daily entry as the claim counts it: a number is worth its value, any
\* other entry is worth 0.
NumericValue(e) == IF e.t = "number" THEN e.n ELSE 0

\* C3: a month's income and expense are the totals of its numeric daily
\* entries, every entry that is not a number counting 0; for the ledger
\* {2025: {6: {categories: {sales_cash: [100, 0, 50]}}}} the income of July
\* 2025 is 150 and its expense is 0.
NonNumericEntriesCountZero ==
  \A r \in DOMAIN reqs :
    (variant = "trend" /\ Reported(r)) =>
      /\ \A slot \in SlotsOf(Ledger(r)) :
           LET categories == CategoriesOf(Ledger(r)[slot.year][slot.month])
               month == BreakdownOf(reqs[r].locals.monthlyBreakdown, MonthKey(slot))
           IN /\ month.income = KeyTotal(categories, IncomeKeys, NumericValue)
              /\ month.expense = KeyTotal(categories, TaxonomyKeys \ IncomeKeys, NumericValue)
      /\ Ledger(r) = ExampleLedger =>
           LET july == BreakdownOf(reqs[r].locals.monthlyBreakdown,
                                   MonthKey([year |-> 2025, month |-> 6]))
           IN july.income = 150 * Scale /\ july.expense = 0

----------------------------------------------------------------------------
(* C4 *)

\* The second trailing-window series of a report.
SecondSeries(r) ==
  IF variant = "ledger" THEN reqs[r].response.body.charts.netProfitTrend
  ELSE reqs[r].response.body.charts.expenseTrend

\* C4: when the calendar span from the earliest ledger month to the current
\* month covers at least 6 months, the trailing-window series have exactly 6
\* entries and hold every calendar month of the 6 that end with the current
\* month, a month without ledger data included.
WindowCoversEveryCalendarMonth ==
  \A r \in DOMAIN reqs :
    (variant \in {"ledger", "trend"} /\ Reported(r)) =>
      LET slots == SlotsOf(Ledger(r))
          nowIndex == MonthIndex(now)
          series == reqs[r].response.body.charts.monthlyComparison
      IN (\E s \in slots : MonthIndex(s) <= nowIndex - (WindowSize - 1)) =>
           /\ Len(series) = WindowSize
           /\ Len(SecondSeries(r)) = WindowSize
           /\ \A n \in (nowIndex - (WindowSize - 1))..nowIndex :
                \E i \in 1..Len(series) : series[i].name = MonthKey(CalendarSlot(n))

----------------------------------------------------------------------------
(* C5 *)

LaterSlots(slots, s) == {t \in slots : MonthIndex(t) > MonthIndex(s)}

\* C5: the trailing-window series list the last 6 (or all, if fewer) of the
\* (year, month) pairs present in the ledger, in ascending (year, month)
\* order: the entry at position i from the end is the pair that has exactly
\* i - 1 later pairs in the ledger.
WindowIsLastPresentMonths ==
  \A r \in DOMAIN reqs :
    (variant \in {"ledger", "trend"} /\ Reported(r) /\ SlotsOf(Ledger(r)) # {}) =>
      LET slots == SlotsOf(Ledger(r))
          series == reqs[r].response.body.charts.monthlyComparison
          second == SecondSeries(r)
      IN /\ Len(series) = Min(WindowSize, Cardinality(slots))
         /\ \A i \in 1..Len(series) :
              \E s \in slots :
                 /\ series[i].name = MonthKey(s)
                 /\ Cardinality(LaterSlots(slots, s)) = Len(series) - i
         /\ Len(second) = Len(series)
         /\ \A i \in 1..Len(series) : second[i].name = series[i].name

\* A stacked-trend report for a ledger of more than 6 months in two years,
\* one of them left out of the window.
WindowIsLastPresentMonthsWitness ==
  \E r \in DOMAIN reqs :
    /\ variant = "trend" /\ Reported(r)
    /\ Cardinality(SlotsOf(Ledger(r))) > WindowSize
    /\ \E s, t \in SlotsOf(Ledger(r)) : s.year # t.year
    /\ Len(reqs[r].response.body.charts.monthlyComparison) = WindowSize
    /\ \E s \in SlotsOf(Ledger(r)) :
         \A i \in 1..WindowSize :
            reqs[r].response.body.charts.monthlyComparison[i].name # MonthKey(s)

----------------------------------------------------------------------------
(* C6 *)

\* C6: a request that reached the handler is answered 404 exactly when the
\* user document does not exist; a failed read of the store, a data-shape
\* failure and an exception during aggregation are answered 500.
NotFoundOnlyForMissingDocument ==
  \A r \in DOMAIN reqs :
    (reqs[r].pc = "done" /\ reqs[r].outcome # "forbidden") =>
      /\ reqs[r].response.status = 404 <=> reqs[r].outcome = "no_document"
      /\ reqs[r].outcome \in {"store_failure", "data_shape", "exception"} =>
           reqs[r].response.status = 500

----------------------------------------------------------------------------
(* C7 *)

\* The place of a returned record in the list of generated records.
PlaceOf(all, record) == CHOOSE j \in 1..Len(all) : all[j].id = record.id

\* a comes before b when sorted by date descending, ties in insertion order.
ComesBefore(all, i, j) ==
  \/ all[i].date.n > all[j].date.n
  \/ all[i].date.n = all[j].date.n /\ i < j

\* C7: recentTransactions of the ledger variant holds the first 7 (or all, if
\* fewer) of the generated records in descending order of date, records of
\* one date in the order of their insertion: each returned record is a
\* generated one, consecutive returned records are in that order, and every
\* record left out comes after every returned one.
RecentTransactionsSortedStable ==
  \A r \in DOMAIN reqs :
    (variant = "ledger" /\ Reported(r)) =>
      LET all == reqs[r].locals.recentTransactions
          out == reqs[r].response.body.recentTransactions
          places == {PlaceOf(all, out[i]) : i \in 1..Len(out)}
      IN /\ Len(out) = Min(RecentCountLedger, Len(all))
         /\ \A i \in 1..Len(out) :
              \E j \in 1..Len(all) : all[j] = out[i]
         /\ \A i \in 1..(Len(out) - 1) :
              ComesBefore(all, PlaceOf(all, out[i]), PlaceOf(all, out[i + 1]))
         /\ \A j \in (1..Len(all)) \ places :
              \A k \in places : ComesBefore(all, k, j)

\* More than 7 records, and a record left out that has the date of a
\* returned one.
RecentTransactionsSortedStableWitness ==
  \E r \in DOMAIN reqs :
    /\ variant = "ledger" /\ Reported(r)
    /\ LET all == reqs[r].locals.recentTransactions
           out == reqs[r].response.body.recentTransactions
       IN /\ Len(all) > RecentCountLedger
          /\ Len(out) = RecentCountLedger
          /\ \E j \in 1..Len(all) :
               /\ \A i \in 1..Len(out) : out[i].id # all[j].id
               /\ \E i \in 1..Len(out) : out[i].date = all[j].date

----------------------------------------------------------------------------
(* C8 *)

LedgerTaxonomyKeys == Range(allIncomeKeysLedger) \cup Range(allExpenseKeysLedger)

\* The cells (month, key, day) of a ledger under the keys of keySet.
CellsOf(years, keySet) ==
  UNION {UNION {{[slot |-> slot, key |-> k, day |-> d] :
                   d \in 1..Len(years[slot.year][slot.month].categories[k])} :
                k \in DOMAIN CategoriesOf(years[slot.year][slot.month]) \cap keySet} :
         slot \in SlotsOf(years)}

CellValue(years, cell) ==
  ToNumber(years[cell.slot.year][cell.slot.month].categories[cell.key][cell.day])

\* The id the variant gives the record of a cell.
CellId(v, cell) ==
  IF v = "ledger"
  THEN <<cell.slot.year, cell.slot.month, cell.day - 1, cell.key,
         IF cell.key \in Range(allIncomeKeysLedger) THEN "in" ELSE "out">>
  ELSE <<cell.slot.year, cell.slot.month, cell.day - 1, cell.key>>

\* C8: in the variants that read the ledger and emit transaction records, a
\* record is emitted for a cell of a taxonomy key (an income key, in the
\* revenue variant) exactly when the cell's value is greater than 0, and it
\* is an "inflow" exactly when the key is an income key.
RecordExactlyForPositiveCells ==
  \A r \in DOMAIN reqs :
    (variant \in {"ledger", "revenue"} /\ Reported(r)) =>
      LET records == reqs[r].locals.recentTransactions
          keySet == IF variant = "ledger" THEN LedgerTaxonomyKeys
                    ELSE Range(allIncomeKeysLedger)
      IN \A cell \in CellsOf(Ledger(r), keySet) :
           LET value == CellValue(Ledger(r), cell)
               emitted == {i \in 1..Len(records) : records[i].id = CellId(variant, cell)}
           IN /\ (emitted # {}) <=> (~value.nan /\ value.n > 0)
              /\ \A i \in emitted :
                   (records[i].type = "inflow") <=> (cell.key \in Range(allIncomeKeysLedger))

----------------------------------------------------------------------------
(* C9 *)

\* The ledger with no daily value left under the keys outside the taxonomy.
WithoutUnknownValues(years) ==
  [y \in DOMAIN years |->
     [m \in DOMAIN years[y] |->
        [years[y][m] EXCEPT !.categories =
           [k \in DOMAIN years[y][m].categories |->
              IF k \in TaxonomyKeys THEN years[y][m].categories[k] ELSE <<>>]]]]

\* The totals and per-group values among the accumulators of a variant.
TotalsOf(v, locals) ==
  CASE v = "ledger" ->
         <<locals.monthlyBreakdown, locals.expenseByCategory, locals.ytdIncome,
           locals.ytdExpense>>
    [] v = "trend" ->
         <<locals.monthlyBreakdown, locals.expenseTrendBreakdown, locals.ytdNetProfit>>
    [] OTHER ->
         <<locals.totalRevenue, locals.monthlyRevenue, locals.revenueByCategory>>

\* C9: the income, revenue and expense totals and the per-group values of a
\* report are those of the ledger that differs from the user's only in
\* holding no daily value under the keys outside the taxonomy.
UnknownKeysContributeNothing ==
  \A r \in DOMAIN reqs :
    (variant \in {"ledger", "trend", "revenue"} /\ Reported(r)) =>
      LET other == getDashboardDataForUser(variant, reqs[r].userId,
                      UserDoc(WithoutUnknownValues(Ledger(r))), now)
      IN /\ other.outcome = "report"
         /\ TotalsOf(variant, other.locals) = TotalsOf(variant, reqs[r].locals)

----------------------------------------------------------------------------
(* C10 *)

\* C10: kpi.ytdNetProfit of the ledger variant is the rounded sum, over the
\* months of the current year present in the ledger, of income - expense as
\* monthlyComparison shows them for the month, and 0 when the current year
\* is absent or has no month.
YtdNetProfitMatchesMonthlyFigures ==
  \A r \in DOMAIN reqs :
    (variant = "ledger" /\ Reported(r)) =>
      LET years == Ledger(r)
          body == reqs[r].response.body
          shown == body.charts.monthlyComparison
          current == IF now.year \in DOMAIN years
                     THEN {[year |-> now.year, month |-> m] : m \in DOMAIN years[now.year]}
                     ELSE {}
          Place(s) == CHOOSE i \in 1..Len(shown) : shown[i].name = MonthKey(s)
      IN /\ (\A s \in current : \E i \in 1..Len(shown) : shown[i].name = MonthKey(s)) =>
              body.kpi.ytdNetProfit =
                MathRound(SumFn([s \in current |->
                                   shown[Place(s)].income - shown[Place(s)].expense]))
         /\ current = {} => body.kpi.ytdNetProfit = 0

----------------------------------------------------------------------------
(* C11 *)

LargestYear(years) == CHOOSE y \in DOMAIN years : \A z \in DOMAIN years : z <= y

\* The report of the variant for the document of the request, computed with
\* `year` as the year in scope.
ReportForYear(r, year) ==
  getDashboardDataForUser(variant, reqs[r].userId, db[reqs[r].userId],
                          [year |-> year, month |-> now.month]).data

\* C11: a request whose selectedYear the ledger has no data for is answered
\* with the report computed for the largest year key of the ledger, which
\* the report lists among its available years; for a ledger without years
\* the answer is an empty-result sentinel, not an aggregate.
SelectedYearFallsBackToLargest ==
  \A r \in DOMAIN reqs :
    (/\ variant \in {"ledger", "trend"}
     /\ Reported(r)
     /\ reqs[r].selectedYear # 0
     /\ reqs[r].selectedYear \notin DOMAIN Ledger(r)) =>
      LET body == reqs[r].response.body
      IN IF DOMAIN Ledger(r) = {}
         THEN DOMAIN body \cap {"kpi", "charts"} = {}
         ELSE /\ body.kpi = ReportForYear(r, LargestYear(Ledger(r))).kpi
              /\ "availableYears" \in DOMAIN body
              /\ LargestYear(Ledger(r)) \in body.availableYears

----------------------------------------------------------------------------
(* C12 *)

\* The expense-composition series of a report.
CompositionSeries(r) ==
  IF variant = "ledger" THEN reqs[r].response.body.charts.expenseComposition
  ELSE reqs[r].response.body.charts.monthlyExpenseComposition

\* The expense groups of a variant's chart, each with the set of its keys.
ExpenseGroups(v) ==
  IF v = "ledger"
  THEN {[name |-> g.groupName, keySet |-> Range(g.keys)] :
          g \in {x \in Range(categoriesDefinitionLedger) :
                   x.groupName \notin {"income", "income_exempt"}}}
  ELSE {[name |-> g.groupName, keySet |-> Range(g.catKeys)] : g \in Range(groupMapping)}

\* The months in scope of the series: the current year in the first
\* variant, the current month in the second.
CompositionScope(v, years) ==
  {slot \in SlotsOf(years) :
     slot.year = now.year /\ (v = "trend" => slot.month = now.month)}

GroupTotalInScope(v, years, group) ==
  SumFn([slot \in CompositionScope(v, years) |->
           KeyTotal(CategoriesOf(years[slot.year][slot.month]), group.keySet, NumberOrZero)])

\* C12: the expense-composition series holds exactly the expense groups
\* whose total in scope is greater than 0, by value descending, and each
\* entry's color is the one the label-to-color table gives its label,
\* #6b7280 for a label the table lacks.
CompositionSeriesColoredByLabel ==
  \A r \in DOMAIN reqs :
    (variant \in {"ledger", "trend"} /\ Reported(r)) =>
      LET series == CompositionSeries(r)
      IN /\ \A i, j \in 1..Len(series) : i # j => series[i].name # series[j].name
         /\ {series[i].name : i \in 1..Len(series)} =
              {g.name : g \in {x \in ExpenseGroups(variant) :
                                 GroupTotalInScope(variant, Ledger(r), x) > 0}}
         /\ \A i \in 1..Len(series) : series[i].value > 0
         /\ \A i, j \in 1..Len(series) : i < j => series[i].value >= series[j].value
         /\ \A i \in 1..Len(series) : series[i].color = categoryColorsTrend(series[i].name)

----------------------------------------------------------------------------
(* C13 *)

\* The handler's call has run past the read for this request.
Resumed(r) ==
  reqs[r].pc = "done" /\ reqs[r].outcome \notin {"forbidden", "store_failure"}

\* What the call leaves when it runs alone on the document of the user.
Alone(r) == getDashboardDataForUser(variant, reqs[r].userId, db[reqs[r].userId], now)

\* C13: whatever the other requests have done or are doing, the answer and
\* the accumulators of a request that ran past its read are those of the
\* call running alone on the document of its user at the same date.
RequestsAreIndependent ==
  \A r \in DOMAIN reqs :
    Resumed(r) =>
      LET alone == Alone(r)
      IN /\ reqs[r].outcome = alone.outcome
         /\ reqs[r].locals = alone.locals
         /\ reqs[r].response = Respond(alone)

\* Two requests were answered with reports of different users, computed
\* from different accumulators.
RequestsAreIndependentWitness ==
  \E r, q \in DOMAIN reqs :
    /\ r # q /\ Reported(r) /\ Reported(q)
    /\ reqs[r].userId # reqs[q].userId
    /\ reqs[r].locals # reqs[q].locals
    /\ reqs[r].response.body # reqs[q].response.body

----------------------------------------------------------------------------
(* C14 *)

\* C14: in the flat-transactions variant, for a document whose transactions
\* field is present and not an array the call raises the data-format error,
\* no report is produced and the answer is 500; for a document without the
\* field the answer is the report of an empty array.
NonArrayTransactionsAnswered500 ==
  \A r \in DOMAIN reqs :
    (variant = "flat" /\ Resumed(r) /\ db[reqs[r].userId].exists) =>
      LET field == db[reqs[r].userId].transactions
      IN /\ field.kind \notin {"absent", "array"} =>
              /\ reqs[r].outcome = "data_shape"
              /\ reqs[r].response.body = DataFormatMessage(reqs[r].userId)
              /\ reqs[r].response.status = 500
         /\ field.kind = "absent" =>
              /\ reqs[r].outcome = "report"
              /\ reqs[r].response = [status |-> 200, body |-> ReportFlat(LocalsFlat(<<>>), <<>>)]

----------------------------------------------------------------------------
(* C15 *)

\* The request was stopped by the middleware: one 403 and nothing else.
Answered403(r) ==
  /\ reqs[r].pc = "done"
  /\ reqs[r].outcome = "forbidden"
  /\ reqs[r].response.status = 403
  /\ reqs[r].locals = <<>>

\* The request went on to the handler, which started the read of the
\* user document.
ReachedHandler(r) ==
  reqs[r].pc = "fetching" \/ (reqs[r].pc = "done" /\ reqs[r].outcome # "forbidden")

\* C15: with API_KEY configured, a received request whose x-api-key header
\* is absent or differs from API_KEY is answered 403 and no read of the user
\* document is started for it; a request reaches getDashboardDataForUser
\* only with a key equal to API_KEY or, outside the flat-transactions
\* variant, with API_KEY unset.
WrongKeyNeverReads ==
  \A r \in DOMAIN reqs :
    reqs[r].pc # "idle" =>
      /\ (API_KEY # "" /\ reqs[r].receivedApiKey # API_KEY) =>
            Answered403(r) /\ ~ReachedHandler(r)
      /\ ReachedHandler(r) =>
            \/ reqs[r].receivedApiKey = API_KEY /\ API_KEY # ""
            \/ variant # "flat" /\ API_KEY = ""

\* With API_KEY configured, a request with another key was answered 403
\* and a request with the key got its report.
WrongKeyNeverReadsWitness ==
  /\ API_KEY # ""
  /\ \E r, q \in DOMAIN reqs :
        /\ Answered403(r) /\ reqs[r].receivedApiKey = "wrong"
        /\ Reported(q) /\ reqs[q].receivedApiKey = API_KEY

----------------------------------------------------------------------------
(* C16 *)

\* The cells of the taxonomy keys of the first variant whose value is
\* greater than 0, over every year and month of the ledger.
PositiveCells(years) ==
  {cell \in CellsOf(years, LedgerTaxonomyKeys) :
     ~CellValue(years, cell).nan /\ CellValue(years, cell).n > 0}

\* C16: in the first variant of server.js kpi.totalTransactions is the
\* number of (year, month, day, taxonomy key) cells of the whole ledger
\* with a value greater than 0, and recentTransactions has
\* min(7, kpi.totalTransactions) records.
TotalTransactionsCountsPositiveCells ==
  \A r \in DOMAIN reqs :
    (variant = "ledger" /\ Reported(r)) =>
      LET body == reqs[r].response.body
      IN /\ body.kpi.totalTransactions = Cardinality(PositiveCells(Ledger(r)))
         /\ Len(body.recentTransactions) = Min(7, body.kpi.totalTransactions)

\* A ledger with more than 7 positive cells, income and expense, and with
\* cells of value 0: the count exceeds the length of the returned list.
TotalTransactionsCountsPositiveCellsWitness ==
  \E r \in DOMAIN reqs :
    /\ variant = "ledger" /\ Reported(r)
    /\ reqs[r].response.body.kpi.totalTransactions > 7
    /\ Len(reqs[r].response.body.recentTransactions) = 7
    /\ reqs[r].locals.incomeTransactionCount > 0
    /\ reqs[r].locals.expenseTransactionCount > 0

====
